---- MODULE Spec2Model ----
(***************************************************************************)
(* A model of the pattern-extraction-and-classification engine:            *)
(*   - simple_pattern_analysis.py: SimplePatternExtractor and              *)
(*     analyze_repository (method-level classifier and aggregator);        *)
(*   - scan_industry.py: IndustryScanner (line-level counter and           *)
(*     per-project roll-up).                                               *)
(* Texts are TLA+ strings; a character is a string of length 1.  Regular   *)
(* expressions are syntax trees interpreted by a backtracking matcher      *)
(* that yields the end positions of the matches in the priority order of   *)
(* Python's re module (greedy quantifiers, leftmost alternative first).    *)
(***************************************************************************)
EXTENDS Integers, Sequences, FiniteSets, TLC

(***************************************************************************)
(* Characters                                                              *)
(***************************************************************************)
LowerAlpha == "abcdefghijklmnopqrstuvwxyz"
UpperAlpha == "ABCDEFGHIJKLMNOPQRSTUVWXYZ"
DigitChars == "0123456789"

Ch(s, i) == SubSeq(s, i, i)

CharsOf(s) == {Ch(s, k) : k \in 1..Len(s)}

\* str.lower() / str.upper() on one (ASCII) character
LowerCh(c) ==
    IF \E k \in 1..Len(UpperAlpha) : Ch(UpperAlpha, k) = c
    THEN Ch(LowerAlpha, CHOOSE k \in 1..Len(UpperAlpha) : Ch(UpperAlpha, k) = c)
    ELSE c

UpperCh(c) ==
    IF \E k \in 1..Len(LowerAlpha) : Ch(LowerAlpha, k) = c
    THEN Ch(UpperAlpha, CHOOSE k \in 1..Len(LowerAlpha) : Ch(LowerAlpha, k) = c)
    ELSE c

\* the regex classes \w and \s (ASCII part)
WordChars == CharsOf(LowerAlpha) \cup CharsOf(UpperAlpha) \cup CharsOf(DigitChars) \cup {"_"}
SpaceChars == {" ", "\t", "\n", "\r", "\f"}

(***************************************************************************)
(* Regular expressions: syntax trees and the matcher                       *)
(***************************************************************************)
Lit(c)   == [t |-> "chr", c |-> c]
In(S)    == [t |-> "set", s |-> S, neg |-> FALSE]
NotIn(S) == [t |-> "set", s |-> S, neg |-> TRUE]
AnyCh    == [t |-> "any"]
Cat(rs)  == [t |-> "cat", rs |-> rs]
Alt(rs)  == [t |-> "alt", rs |-> rs]
Star(r)  == [t |-> "star", r |-> r]
Plus(r)  == [t |-> "plus", r |-> r]
Opt(r)   == [t |-> "opt", r |-> r]
Str(s)   == [t |-> "str", v |-> s]
W        == In(WordChars)
Sp       == In(SpaceChars)

RECURSIVE DedupRange(_, _, _)
DedupRange(js, lo, hi) ==
    IF lo > hi THEN <<>>
    ELSE IF lo = hi THEN <<js[lo]>>
    ELSE LET mid   == (lo + hi) \div 2
             left  == DedupRange(js, lo, mid)
             seen  == {left[k] : k \in 1..Len(left)}
         IN  left \o SelectSeq(DedupRange(js, mid + 1, hi), LAMBDA j : j \notin seen)

\* a sequence of positions without its repetitions, first occurrences kept
Dedup(js) == DedupRange(js, 1, Len(js))

\* one character against a literal / a class, under re.IGNORECASE when ic
CharEq(c, lit, ic) == c = lit \/ (ic /\ LowerCh(c) = LowerCh(lit))
InClass(c, S, ic)  == c \in S \/ (ic /\ (LowerCh(c) \in S \/ UpperCh(c) \in S))

\* does the single-character expression r (a literal, a class or the dot,
\* which excludes the newline as re.DOTALL is not given) match s[i] ?
OneCh(r, s, i, ic) ==
    /\ i <= Len(s)
    /\ CASE r.t = "chr" -> CharEq(Ch(s, i), r.c, ic)
         [] r.t = "set" -> InClass(Ch(s, i), r.s, ic) # r.neg
         [] r.t = "any" -> Ch(s, i) # "\n"

IsOneCh(r) == r.t \in {"chr", "set", "any"}

\* where the longest run of characters matching r that starts at i ends
RunEnd(r, s, i, ic) ==
    CHOOSE j \in i..(Len(s) + 1) :
        /\ ~OneCh(r, s, j, ic)
        /\ \A k \in i..(j - 1) : OneCh(r, s, k, ic)

\* the positions hi, hi-1, ..., lo (the longest repetition is tried first)
Downto(hi, lo) == [m \in 1..(hi - lo + 1) |-> hi - m + 1]

RECURSIVE Ends(_, _, _, _), CatRange(_, _, _, _, _, _), ThenCat(_, _, _, _, _, _, _, _),
          AltEnds(_, _, _, _, _), StarEnds(_, _, _, _), ThenStar(_, _, _, _, _, _)

\* The end positions (index after the last matched character) of the matches
\* of r in s that start at position i, in the order a backtracking matcher
\* tries them: greedy quantifiers, leftmost alternative first.
Ends(r, s, i, ic) ==
    CASE IsOneCh(r)   -> IF OneCh(r, s, i, ic) THEN <<i + 1>> ELSE <<>>
      [] r.t = "str"  -> IF /\ i + Len(r.v) - 1 <= Len(s)
                            /\ \A k \in 1..Len(r.v) : CharEq(Ch(s, i + k - 1), Ch(r.v, k), ic)
                         THEN <<i + Len(r.v)>> ELSE <<>>
      [] r.t = "cat"  -> CatRange(r.rs, 1, Len(r.rs), s, i, ic)
      [] r.t = "alt"  -> Dedup(AltEnds(r.rs, 1, s, i, ic))
      [] r.t = "star" -> IF IsOneCh(r.r) THEN Downto(RunEnd(r.r, s, i, ic), i)
                         ELSE StarEnds(r.r, s, i, ic)
      [] r.t = "plus" -> IF IsOneCh(r.r) THEN Downto(RunEnd(r.r, s, i, ic), i + 1)
                         ELSE LET js == Ends(r.r, s, i, ic)
                              IN  Dedup(ThenStar(r.r, s, js, 1, Len(js), ic))
      [] r.t = "opt"  -> Dedup(Ends(r.r, s, i, ic) \o <<i>>)

\* the matches of the parts rs[lo..hi] in a row, from i
CatRange(rs, lo, hi, s, i, ic) ==
    IF lo > hi THEN <<i>>
    ELSE IF lo = hi THEN Ends(rs[lo], s, i, ic)
    ELSE LET mid == (lo + hi) \div 2
             js  == CatRange(rs, lo, mid, s, i, ic)
         IN  IF js = <<>> THEN <<>>
             ELSE IF Len(js) = 1 THEN CatRange(rs, mid + 1, hi, s, js[1], ic)
             ELSE Dedup(ThenCat(rs, mid + 1, hi, s, js, 1, Len(js), ic))

\* the matches of rs[lo..hi] from each of js[a..b], in order
ThenCat(rs, lo, hi, s, js, a, b, ic) ==
    IF a = b THEN CatRange(rs, lo, hi, s, js[a], ic)
    ELSE LET mid == (a + b) \div 2
         IN  ThenCat(rs, lo, hi, s, js, a, mid, ic) \o ThenCat(rs, lo, hi, s, js, mid + 1, b, ic)

\* the matches of the parts rs[k..] in a row, from i
CatEnds(rs, k, s, i, ic) == CatRange(rs, k, Len(rs), s, i, ic)

AltEnds(rs, k, s, i, ic) ==
    IF k > Len(rs) THEN <<>>
    ELSE Ends(rs[k], s, i, ic) \o AltEnds(rs, k + 1, s, i, ic)

\* greedy: one more repetition first, the empty repetition last
StarEnds(r, s, i, ic) ==
    LET js == SelectSeq(Ends(r, s, i, ic), LAMBDA j : j > i)
    IN  Dedup(ThenStar(r, s, js, 1, Len(js), ic) \o <<i>>)

ThenStar(r, s, js, lo, hi, ic) ==
    IF lo > hi THEN <<>>
    ELSE IF lo = hi THEN StarEnds(r, s, js[lo], ic)
    ELSE LET mid == (lo + hi) \div 2
         IN  ThenStar(r, s, js, lo, mid, ic) \o ThenStar(r, s, js, mid + 1, hi, ic)

\* the start positions of the matches of r in s
MatchStarts(r, s, ic) == {i \in 1..(Len(s) + 1) : Ends(r, s, i, ic) # <<>>}

\* re.search(regex, s, flags) is not None
Search(r, s, ic) == MatchStarts(r, s, ic) # {}

Min(S) == CHOOSE m \in S : \A n \in S : m <= n
Max(S) == CHOOSE m \in S : \A n \in S : n <= m

RECURSIVE CountFrom(_, _, _, _, _)
\* the matches found scanning from position i on: the leftmost start, its
\* preferred end, and on from there (one further after an empty match)
CountFrom(r, s, starts, i, ic) ==
    LET rest == {j \in starts : j >= i}
    IN  IF rest = {} THEN 0
        ELSE LET b == Min(rest)
                 e == Ends(r, s, b, ic)[1]
             IN  1 + CountFrom(r, s, starts, IF e > b THEN e ELSE b + 1, ic)

\* len(re.findall(regex, s)): the non-overlapping matches, scanned left to right
FindallCount(r, s, ic) == CountFrom(r, s, MatchStarts(r, s, ic), 1, ic)

(***************************************************************************)
(* Signature catalogs                                                      *)
(***************************************************************************)
\* SimplePatternExtractor.patterns: the categories in dict order
PatternTypes ==
    <<"array_manipulation", "string_processing", "hash_map_operations",
      "mathematical_computation", "sorting_searching", "validation_logic">>

\* the signatures shared by the two catalogs
SigHashMapNew  == Cat(<<Str("HashMap<"), Plus(NotIn({">"})), Lit(">"), Star(Sp), Plus(W),
                        Star(Sp), Lit("="), Star(Sp), Str("new"), Star(Sp), Str("HashMap")>>)
SigMapDecl     == Cat(<<Str("Map<"), Plus(NotIn({">"})), Lit(">"), Star(Sp), Plus(W)>>)
SigPut         == Cat(<<Plus(W), Str(".put"), Star(Sp), Lit("(")>>)
SigGet         == Cat(<<Plus(W), Str(".get"), Star(Sp), Lit("(")>>)
SigContainsKey == Cat(<<Plus(W), Str(".containsKey"), Star(Sp), Lit("(")>>)
SigCollSort    == Cat(<<Str("Collections.sort"), Star(Sp), Lit("(")>>)
SigArraysSort  == Cat(<<Str("Arrays.sort"), Star(Sp), Lit("(")>>)
SigStreamSort  == Cat(<<Str(".stream()"), Star(AnyCh), Str(".sorted(")>>)
SigStringOp    == Cat(<<Str("String"), Star(W), Lit("."),
                        Alt(<<Str("substring"), Str("indexOf"), Str("replace"),
                              Str("split"), Str("matches")>>)>>)

\* SimplePatternExtractor.patterns[pattern_type]: the regexes in list order
Patterns(pattern_type) ==
    CASE pattern_type = "array_manipulation" ->
           <<Cat(<<Str("for"), Star(Sp), Lit("("), Star(NotIn({")"})), Star(Sp), Lit(":"),
                   Star(Sp), Plus(W), Str("[]")>>),
             Cat(<<Plus(W), Lit("["), Star(Sp), Plus(W), Star(Sp), Lit("]"), Star(Sp), Lit("=")>>),
             Cat(<<Str("Arrays."), Alt(<<Str("sort"), Str("binarySearch"), Str("copyOf")>>)>>),
             Cat(<<Str("new"), Plus(Sp), Plus(W), Lit("["), Star(Sp), Star(W), Star(Sp), Lit("]")>>)>>
      [] pattern_type = "string_processing" ->
           <<SigStringOp,
             Cat(<<Str("StringBuilder"), Star(Sp), Plus(W), Star(Sp), Lit("="), Star(Sp),
                   Str("new"), Star(Sp), Str("StringBuilder")>>),
             Cat(<<Str("Pattern."), Alt(<<Str("compile"), Str("matches")>>)>>),
             Str(".toString()")>>
      [] pattern_type = "hash_map_operations" ->
           <<SigHashMapNew, SigMapDecl, SigPut, SigGet, SigContainsKey>>
      [] pattern_type = "mathematical_computation" ->
           <<Cat(<<Str("Math."), Alt(<<Str("max"), Str("min"), Str("abs"), Str("pow"), Str("sqrt")>>)>>),
             Cat(<<Str("BigDecimal"), Plus(Sp), Plus(W)>>),
             Cat(<<Str("Random"), Plus(Sp), Plus(W), Star(Sp), Lit("="), Star(Sp), Str("new")>>),
             Cat(<<Str("calculate"), Star(W), Star(Sp), Lit("(")>>),
             Cat(<<Str("compute"), Star(W), Star(Sp), Lit("(")>>)>>
      [] pattern_type = "sorting_searching" ->
           <<SigCollSort, SigArraysSort,
             Cat(<<Str("Comparator<"), Plus(NotIn({">"})), Lit(">")>>),
             SigStreamSort,
             Str("binarySearch")>>
      [] pattern_type = "validation_logic" ->
           <<Cat(<<Str("validate"), Star(W), Star(Sp), Lit("(")>>),
             Cat(<<Str("if"), Star(Sp), Lit("("), Star(NotIn({")"})), Str("null"),
                   Star(NotIn({")"})), Lit(")")>>),
             Cat(<<Str("throw"), Plus(Sp), Str("new"), Plus(Sp), Star(W), Str("Exception")>>),
             Cat(<<Str("assert"), Star(W), Star(Sp), Lit("(")>>)>>

\* SimplePatternExtractor.leetcode_mapping
LeetcodeMapping(pattern_type) ==
    CASE pattern_type = "array_manipulation" ->
           <<"Two Sum", "Best Time to Buy and Sell Stock", "Rotate Array">>
      [] pattern_type = "string_processing" ->
           <<"Valid Anagram", "Longest Substring Without Repeating Characters", "Valid Parentheses">>
      [] pattern_type = "hash_map_operations" ->
           <<"Two Sum", "Group Anagrams", "Top K Frequent Elements">>
      [] pattern_type = "mathematical_computation" ->
           <<"Pow(x, n)", "Sqrt(x)", "Happy Number">>
      [] pattern_type = "sorting_searching" ->
           <<"Merge Intervals", "Search in Rotated Sorted Array", "Kth Largest Element">>
      [] pattern_type = "validation_logic" ->
           <<"Valid Parentheses", "Valid Sudoku", "Valid Binary Search Tree">>

\* IndustryScanner.patterns: the categories in dict order
ScanTypes == <<"hash_map", "sorting", "string_ops", "tree_graph">>

\* IndustryScanner.patterns[pattern_type]
ScanPatterns(pattern_type) ==
    CASE pattern_type = "hash_map" ->
           <<SigHashMapNew, SigMapDecl, SigPut, SigGet, SigContainsKey>>
      [] pattern_type = "sorting" ->
           <<SigCollSort, SigArraysSort, SigStreamSort, Str("Comparator.")>>
      [] pattern_type = "string_ops" ->
           <<SigStringOp, Str("StringBuilder"), Str("Pattern.compile")>>
      [] pattern_type = "tree_graph" ->
           <<Cat(<<Str("class"), Plus(Sp), Star(W), Str("Node")>>),
             Cat(<<Str("class"), Plus(Sp), Star(W), Str("Tree")>>),
             Cat(<<Str("traverse"), Star(W), Lit("(")>>)>>

(***************************************************************************)
(* Method extraction                                                       *)
(***************************************************************************)
BodyChars == Star(NotIn({"{", "}"}))

\* method_pattern, as the sequence of its top-level parts; part 7 is group 3
\* (the name) and part 14 is group 4 (the body)
MethodPattern ==
    <<Opt(Alt(<<Str("public"), Str("private"), Str("protected")>>)),
      Star(Sp),
      Opt(Str("static")),
      Star(Sp),
      Plus(W),
      Plus(Sp),
      Plus(W),
      Star(Sp),
      Lit("("),
      Star(NotIn({")"})),
      Lit(")"),
      Star(Sp),
      Lit("{"),
      Cat(<<BodyChars, Star(Cat(<<Lit("{"), BodyChars, Lit("}"), BodyChars>>))>>),
      Lit("}")>>
NameGroup == 7
BodyGroup == 14

RECURSIVE PathFrom(_, _, _, _)
\* The part boundaries of the match of rs[k..] at i that the matcher finds
\* first: <<end of part k, ..., end of the last part>> (a match exists).
PathFrom(rs, k, s, i) ==
    IF k > Len(rs) THEN <<>>
    ELSE LET js == Ends(rs[k], s, i, FALSE)
             ok == {n \in 1..Len(js) : CatEnds(rs, k + 1, s, js[n], FALSE) # <<>>}
             j  == js[Min(ok)]
         IN  <<j>> \o PathFrom(rs, k + 1, s, j)

RECURSIVE FindIter(_, _, _, _)
\* re.finditer: the matches from position i on, each as [name, body], not
\* overlapping, scanned left to right
FindIter(rs, s, starts, i) ==
    LET rest == {j \in starts : j >= i}
    IN  IF rest = {} THEN <<>>
        ELSE LET b    == Min(rest)
                 path == PathFrom(rs, 1, s, b)
                 from == [k \in 1..Len(rs) |-> IF k = 1 THEN b ELSE path[k - 1]]
                 e    == path[Len(rs)]
                 m    == [name |-> SubSeq(s, from[NameGroup], path[NameGroup] - 1),
                          body |-> SubSeq(s, from[BodyGroup], path[BodyGroup] - 1)]
             IN  <<m>> \o FindIter(rs, s, starts, IF e > b THEN e ELSE b + 1)

\* len(s.strip())
StripLen(s) ==
    LET keep == {k \in 1..Len(s) : Ch(s, k) \notin SpaceChars}
    IN  IF keep = {} THEN 0 ELSE Max(keep) - Min(keep) + 1

TrivialLen == 20

\* methods[name] = body on a dict kept as the sequence of its items in
\* insertion order: an existing key keeps its place and takes the new value
DictPut(d, name, body) ==
    IF \E k \in 1..Len(d) : d[k].name = name
    THEN [k \in 1..Len(d) |-> IF d[k].name = name THEN [name |-> name, body |-> body] ELSE d[k]]
    ELSE Append(d, [name |-> name, body |-> body])

RECURSIVE CollectMethods(_, _, _)
CollectMethods(ms, k, d) ==
    IF k > Len(ms) THEN d
    ELSE CollectMethods(ms, k + 1,
            IF StripLen(ms[k].body) > TrivialLen THEN DictPut(d, ms[k].name, ms[k].body) ELSE d)

\* SimplePatternExtractor._extract_methods
ExtractMethods(java_code) ==
    LET starts == {i \in 1..(Len(java_code) + 1) : CatEnds(MethodPattern, 1, java_code, i, FALSE) # <<>>}
    IN  CollectMethods(FindIter(MethodPattern, java_code, starts, 1), 1, <<>>)

(***************************************************************************)
(* Python floats: IEEE 754 binary64, round to nearest, ties to even.       *)
(* A natural number is its sequence of bits, lowest first, without leading *)
(* zeros; a positive float is [m |-> 53-bit mantissa, e |-> exponent],     *)
(* of value m * 2^e.                                                       *)
(***************************************************************************)
MantissaBits == 53

HexDigits == "0123456789abcdef"
HexVal(c) == (CHOOSE k \in 1..16 : Ch(HexDigits, k) = c) - 1

Pow2(n) == IF n = 0 THEN 1 ELSE IF n = 1 THEN 2 ELSE IF n = 2 THEN 4 ELSE 8

BitAt(a, k) == IF k \in 1..Len(a) THEN a[k] ELSE 0

\* a without its leading (highest) zero bits
Trim(a) ==
    LET ones == {k \in 1..Len(a) : a[k] = 1}
    IN  IF ones = {} THEN <<>> ELSE SubSeq(a, 1, Max(ones))

\* the bits of the hexadecimal numeral h
HexBits(h) ==
    Trim([k \in 1..(4 * Len(h)) |->
            (HexVal(Ch(h, Len(h) - ((k - 1) \div 4))) \div Pow2((k - 1) % 4)) % 2])

\* a * 2^n
ShiftLeft(a, n) ==
    IF a = <<>> THEN <<>>
    ELSE [k \in 1..(Len(a) + n) |-> IF k <= n THEN 0 ELSE a[k - n]]

\* the carry into bit k of a + b: the highest position below k where the two
\* bits agree decides it (both 1: a carry is generated; both 0: it is absorbed)
CarryInto(a, b, k) ==
    LET same == {j \in 1..(k - 1) : BitAt(a, j) = BitAt(b, j)}
    IN  same # {} /\ BitAt(a, Max(same)) = 1

BigAdd(a, b) ==
    LET n == (IF Len(a) > Len(b) THEN Len(a) ELSE Len(b)) + 1
    IN  Trim([k \in 1..n |->
                (BitAt(a, k) + BitAt(b, k) + (IF CarryInto(a, b, k) THEN 1 ELSE 0)) % 2])

BigLess(a, b) ==
    \E k \in 1..Len(b) :
        /\ b[k] = 1 /\ BitAt(a, k) = 0
        /\ \A m \in (k + 1)..(IF Len(a) > Len(b) THEN Len(a) ELSE Len(b)) :
               BitAt(a, m) = BitAt(b, m)

RECURSIVE BigMulRange(_, _, _, _)
\* the sum of b * 2^(k-1) over the bits k of a in lo..hi that are set
BigMulRange(a, b, lo, hi) ==
    IF \A k \in lo..hi : a[k] = 0 THEN <<>>
    ELSE IF lo = hi THEN ShiftLeft(b, lo - 1)
    ELSE LET mid == (lo + hi) \div 2
         IN  BigAdd(BigMulRange(a, b, lo, mid), BigMulRange(a, b, mid + 1, hi))

BigMul(a, b) == BigMulRange(a, b, 1, Len(a))

\* the bits of a small natural number (an int operand converted to float)
IntBits(n) == Trim([k \in 1..8 |-> (n \div (IF k <= 4 THEN Pow2(k - 1) ELSE 16 * Pow2(k - 5))) % 2])

\* the float nearest to p * 2^e (p > 0), ties to even
RoundFloat(p, e) ==
    IF Len(p) <= MantissaBits
    THEN [m |-> ShiftLeft(p, MantissaBits - Len(p)), e |-> e - (MantissaBits - Len(p))]
    ELSE LET d    == Len(p) - MantissaBits
             q    == SubSeq(p, d + 1, Len(p))
             low  == Trim(SubSeq(p, 1, d))
             half == ShiftLeft(<<1>>, d - 1)
             up   == BigLess(half, low) \/ (low = half /\ q[1] = 1)
             q1   == IF up THEN BigAdd(q, <<1>>) ELSE q
         IN  IF Len(q1) > MantissaBits
             THEN [m |-> SubSeq(q1, 2, Len(q1)), e |-> e + d + 1]
             ELSE [m |-> q1, e |-> e + d]

\* the float written 0x1.<frac>p<exp>, as float.hex() prints it
HexFloat(frac, exp) == [m |-> HexBits("1" \o frac), e |-> exp - 4 * Len(frac)]

FloatOfInt(n) == RoundFloat(IntBits(n), 0)

FloatMul(a, b) == RoundFloat(BigMul(a.m, b.m), a.e + b.e)

FloatAdd(a, b) ==
    LET e == IF a.e < b.e THEN a.e ELSE b.e
    IN  RoundFloat(BigAdd(ShiftLeft(a.m, a.e - e), ShiftLeft(b.m, b.e - e)), e)

FloatLess(a, b) ==
    LET e == IF a.e < b.e THEN a.e ELSE b.e
    IN  BigLess(ShiftLeft(a.m, a.e - e), ShiftLeft(b.m, b.e - e))

\* Python's min(a, b): b when b < a, else a
FloatMin(a, b) == IF FloatLess(b, a) THEN b ELSE a

\* the float literals of the source
F0_3 == HexFloat("3333333333333", -2)
F0_2 == HexFloat("999999999999a", -3)
F1_0 == HexFloat("0000000000000", 0)
F0_7 == HexFloat("6666666666666", -1)
F0_5 == HexFloat("0000000000000", -1)

\* mutant of Confidence: the ceiling of 1.0 is left out
ConfidenceNoCeiling(matches) == FloatAdd(F0_3, FloatMul(FloatOfInt(matches), F0_2))

\* confidence = min(0.3 + (matches * 0.2), 1.0)
Confidence(matches) == FloatMin(FloatAdd(F0_3, FloatMul(FloatOfInt(matches), F0_2)), F1_0)

(***************************************************************************)
(* The files a run may meet: sample Java sources (and their directories)   *)
(* from which the initial state draws the repository.                      *)
(***************************************************************************)
SampleFiles == {"Account", "Sorter", "Card", "Loans", "Wrap", "WrapTest", "Gen"}

\* the top-level directory of the file, its directory below that ("" for
\* none), its name and its text
FileDir(f) ==
    CASE f = "Account" -> "billing"
      [] f = "Sorter" -> "billing"
      [] f = "Card" -> "pay"
      [] f = "Loans" -> "pay"
      [] f = "Wrap" -> "misc"
      [] f = "WrapTest" -> "misc"
      [] f = "Gen" -> "misc"

FileSub(f) ==
    CASE f = "Account" -> ""
      [] f = "Sorter" -> ""
      [] f = "Card" -> ""
      [] f = "Loans" -> ""
      [] f = "Wrap" -> ""
      [] f = "WrapTest" -> ""
      [] f = "Gen" -> "target/classes"

FileName(f) ==
    CASE f = "Account" -> "AccountBalanceService.java"
      [] f = "Sorter" -> "Sorter.java"
      [] f = "Card" -> "PaymentCard.java"
      [] f = "Loans" -> "Loans.java"
      [] f = "Wrap" -> "Wrap.java"
      [] f = "WrapTest" -> "WrapTest.java"
      [] f = "Gen" -> "Gen.java"

Content(f) ==
    CASE f = "Account" ->
           "public int count(String k) {\n"
           \o "  Map<String,Integer> m = new HashMap<>();\n"
           \o "  m.put(k, 1);\n"
           \o "  return m.get(k);\n"
           \o "}\n"
           \o "private boolean check(String s) {\n"
           \o "  if (s == null) return false;\n"
           \o "  return s.toString().equals(k.toString());\n"
           \o "}\n"
      [] f = "Sorter" ->
           "void sortAll(List<String> xs) {\n"
           \o "  Collections.sort(xs); Arrays.sort(arr);\n"
           \o "  if (xs == null) { throw new IllegalStateException(); }\n"
           \o "  StringBuilder sb = new StringBuilder(); m.put(k, sb.toString());\n"
           \o "}\n"
      [] f = "Card" ->
           "static double calculateFee(Map<String,Double> r, String k) {\n"
           \o "  double[] t = new double[2];\n"
           \o "  if (!r.containsKey(k)) r.put(k, Math.abs(computeRate(k)));\n"
           \o "  Map<String,Double> c = r;\n"
           \o "  return c.get(k);\n"
           \o "}\n"
      [] f = "Loans" ->
           "int add(int[] a, int i) { a[i] = a[i] + 1; return a[i]; }\n"
           \o "int add(String s) { return Math.max(s.length(), 10000); }\n"
      [] f = "Wrap" ->
           "int size(Map<String,\n"
           \o "    Integer> m) {\n"
           \o "  return 0;\n"
           \o "}\n"
      [] f = "WrapTest" ->
           "void testSize() {\n"
           \o "  assertEquals(0, new Wrap().size(null));\n"
           \o "}\n"
      [] f = "Gen" ->
           "int gen(Tree t) { return t.traverseAll(t.root).size(); }\n"

(***************************************************************************)
(* Method-level classifier: SimplePatternExtractor                         *)
(***************************************************************************)
RECURSIVE UpperRange(_, _, _)
UpperRange(s, lo, hi) ==
    IF lo > hi THEN ""
    ELSE IF lo = hi THEN UpperCh(Ch(s, lo))
    ELSE LET mid == (lo + hi) \div 2
         IN  UpperRange(s, lo, mid) \o UpperRange(s, mid + 1, hi)

\* str.upper()
Upper(s) == UpperRange(s, 1, Len(s))

RECURSIVE LowerRange(_, _, _)
LowerRange(s, lo, hi) ==
    IF lo > hi THEN ""
    ELSE IF lo = hi THEN LowerCh(Ch(s, lo))
    ELSE LET mid == (lo + hi) \div 2
         IN  LowerRange(s, lo, mid) \o LowerRange(s, mid + 1, hi)

\* str.lower()
Lower(s) == LowerRange(s, 1, Len(s))

\* needle in hay
Contains(hay, needle) ==
    \E i \in 0..(Len(hay) - Len(needle)) : SubSeq(hay, i + 1, i + Len(needle)) = needle

\* s.endswith(suffix)
EndsWith(s, suffix) ==
    Len(s) >= Len(suffix) /\ SubSeq(s, Len(s) - Len(suffix) + 1, Len(s)) = suffix

RECURSIVE JoinFrom(_, _, _)
JoinFrom(sep, xs, k) ==
    IF k > Len(xs) THEN ""
    ELSE IF k = Len(xs) THEN xs[k]
    ELSE xs[k] \o sep \o JoinFrom(sep, xs, k + 1)

\* sep.join(xs)
Join(sep, xs) == JoinFrom(sep, xs, 1)

\* seq[:n]
FirstN(seq, n) == SubSeq(seq, 1, IF Len(seq) < n THEN Len(seq) ELSE n)

BusinessKeywords ==
    <<"invoice", "payment", "balance", "account", "transaction",
      "settlement", "card", "loan", "savings", "transfer", "financial">>

\* mutant of GetBusinessContext: the path is not lowered
GetBusinessContextCased(filepath) ==
    LET contexts == SelectSeq(BusinessKeywords, LAMBDA kw : Contains(filepath, kw))
    IN  IF contexts # <<>> THEN Join(", ", contexts) ELSE "general"

\* SimplePatternExtractor._get_business_context
GetBusinessContext(filepath) ==
    LET path_lower == Lower(filepath)
        contexts   == SelectSeq(BusinessKeywords, LAMBDA kw : Contains(path_lower, kw))
    IN  IF contexts # <<>> THEN Join(", ", contexts) ELSE "general"

RECURSIVE CountOccurrences(_, _, _)
\* mutant of CountMatches: every occurrence counts, not every signature
CountOccurrences(regexes, k, method_code) ==
    IF k > Len(regexes) THEN 0
    ELSE FindallCount(regexes[k], method_code, TRUE) + CountOccurrences(regexes, k + 1, method_code)

RECURSIVE CountMatches(_, _, _)
\* the loop "for regex in regexes: if re.search(...): matches += 1"
CountMatches(regexes, k, method_code) ==
    IF k > Len(regexes) THEN 0
    ELSE (IF Search(regexes[k], method_code, TRUE) THEN 1 ELSE 0)
         + CountMatches(regexes, k + 1, method_code)

SnippetLen == 200
MaxProblems == 3

\* method_code[:200] + '...' if len(method_code) > 200 else method_code
CodeSnippet(method_code) ==
    IF Len(method_code) > SnippetLen THEN SubSeq(method_code, 1, SnippetLen) \o "..."
    ELSE method_code

\* the record appended for one method and one category that matched
MakeRecord(filepath, method, pattern_type, matches) ==
    [file             |-> filepath,
     method           |-> method.name,
     pattern_type     |-> pattern_type,
     confidence       |-> Confidence(matches),
     matches          |-> matches,
     business_context |-> GetBusinessContext(filepath),
     leetcode_problems |-> FirstN(LeetcodeMapping(pattern_type), MaxProblems),
     code_snippet     |-> CodeSnippet(method.body)]

RECURSIVE ClassifyFrom(_, _, _)
\* the inner loop of extract_from_file over the categories, for one method
ClassifyFrom(filepath, method, c) ==
    IF c > Len(PatternTypes) THEN <<>>
    ELSE LET matches == CountMatches(Patterns(PatternTypes[c]), 1, method.body)
         IN  (IF matches > 0 THEN <<MakeRecord(filepath, method, PatternTypes[c], matches)>>
              ELSE <<>>)
             \o ClassifyFrom(filepath, method, c + 1)

ClassifyMethod(filepath, method) == ClassifyFrom(filepath, method, 1)

(***************************************************************************)
(* Line-level counter: IndustryScanner.scan_file                           *)
(***************************************************************************)
LineBreaks == {"\n", "\r", "\f"}

\* str.splitlines(): the text between line boundaries ("\r\n" is one
\* boundary); no empty last line after a final boundary
SplitLines(s) ==
    LET isBreak(i) == Ch(s, i) \in LineBreaks
        \* the second half of a "\r\n" boundary
        isTail(i)  == i > 1 /\ Ch(s, i) = "\n" /\ Ch(s, i - 1) = "\r"
        starts     == {i \in 1..Len(s) :
                         i = 1 \/ (isBreak(i - 1) /\ ~isTail(i)
                                   /\ ~(Ch(s, i - 1) = "\r" /\ Ch(s, i) = "\n"))
                               \/ (i > 2 /\ isTail(i - 1))}
        lineEnd(a) == Min({j \in a..(Len(s) + 1) : j = Len(s) + 1 \/ isBreak(j)})
        nth(n)     == CHOOSE a \in starts : Cardinality({b \in starts : b < a}) = n - 1
    IN  [n \in 1..Cardinality(starts) |-> SubSeq(s, nth(n), lineEnd(nth(n)) - 1)]

RECURSIVE SumFindall(_, _, _)
\* the matches of the regexes of one category over the whole text
SumFindall(regexes, k, content) ==
    IF k > Len(regexes) THEN 0
    ELSE FindallCount(regexes[k], content, FALSE) + SumFindall(regexes, k + 1, content)

\* what scan_file adds to proj_result["patterns"][pattern_type]
RawMatches(content, pattern_type) == SumFindall(ScanPatterns(pattern_type), 1, content)

RECURSIVE LineFoundPerCategory(_, _, _)
\* mutant of LineFound: the loop over the categories goes on after a match,
\* the line counts once for every category that matches it
LineFoundPerCategory(line, c, k) ==
    IF c > Len(ScanTypes) THEN 0
    ELSE IF k > Len(ScanPatterns(ScanTypes[c])) THEN LineFoundPerCategory(line, c + 1, 1)
    ELSE IF Search(ScanPatterns(ScanTypes[c])[k], line, FALSE)
         THEN 1 + LineFoundPerCategory(line, c + 1, 1)
    ELSE LineFoundPerCategory(line, c, k + 1)

RECURSIVE LineFound(_, _, _)
\* the two inner loops over one line: 1 at the first regex of the first
\* category that matches (found, break, break), else 0
LineFound(line, c, k) ==
    IF c > Len(ScanTypes) THEN 0
    ELSE IF k > Len(ScanPatterns(ScanTypes[c])) THEN LineFound(line, c + 1, 1)
    ELSE IF Search(ScanPatterns(ScanTypes[c])[k], line, FALSE) THEN 1
    ELSE LineFound(line, c, k + 1)

RECURSIVE LocFrom(_, _)
LocFrom(lines, n) ==
    IF n > Len(lines) THEN 0 ELSE LineFound(lines[n], 1, 1) + LocFrom(lines, n + 1)

\* loc_count of scan_file
LocCount(content) == LocFrom(SplitLines(content), 1)

(***************************************************************************)
(* What the two tools compute per sample file.  These are the functions    *)
(* above applied to the sample texts, tabulated once.                      *)
(***************************************************************************)
RepoPath == "/local/repos/mcom-m3"
ScanRoot == "industry-repos"

\* os.path.join(a, b)
PathJoin(a, b) == a \o "/" \o b

\* the directory os.walk reports for the file, and the file's path
RootOf(base, f) ==
    IF FileSub(f) = "" THEN PathJoin(base, FileDir(f))
    ELSE PathJoin(PathJoin(base, FileDir(f)), FileSub(f))
FilePath(base, f) == PathJoin(RootOf(base, f), FileName(f))

\* _extract_methods(content) per file
MethodsOf == [f \in SampleFiles |-> ExtractMethods(Content(f))]

\* the records of each method of the file, as the loops of extract_from_file
\* append them
ClassifiedOf ==
    [f \in SampleFiles |->
        [k \in 1..Len(MethodsOf[f]) |-> ClassifyMethod(FilePath(RepoPath, f), MethodsOf[f][k])]]

\* what scan_file adds for the file: per category and to pattern_loc
RawOf == [f \in SampleFiles |-> [c \in 1..Len(ScanTypes) |-> RawMatches(Content(f), ScanTypes[c])]]
LocOf == [f \in SampleFiles |-> LocCount(Content(f))]

(***************************************************************************)
(* Aggregation: analyze_repository, lines 147-171                          *)
(***************************************************************************)
\* mutant of CounterAdd: a key is noted but not counted
CounterAddOnce(d, key) ==
    IF \E k \in 1..Len(d) : d[k].key = key THEN d ELSE Append(d, [key |-> key, n |-> 1])

\* Counter[key] += 1 on a Counter kept as the sequence of its items in
\* insertion order
CounterAdd(d, key) ==
    IF \E k \in 1..Len(d) : d[k].key = key
    THEN [k \in 1..Len(d) |-> IF d[k].key = key THEN [key |-> key, n |-> d[k].n + 1] ELSE d[k]]
    ELSE Append(d, [key |-> key, n |-> 1])

RECURSIVE CounterFrom(_, _, _)
CounterFrom(keys, k, d) ==
    IF k > Len(keys) THEN d ELSE CounterFrom(keys, k + 1, CounterAdd(d, keys[k]))

\* dict(Counter(keys))
CounterOf(keys) == CounterFrom(keys, 1, <<>>)

\* the confidence bands
IsHigh(p)   == FloatLess(F0_7, p.confidence)
\* mutant of IsMedium: the band leaves out its two ends
IsMediumOpen(p) == FloatLess(F0_5, p.confidence) /\ FloatLess(p.confidence, F0_7)
IsMedium(p) == ~FloatLess(p.confidence, F0_5) /\ ~FloatLess(F0_7, p.confidence)
IsLow(p)    == FloatLess(p.confidence, F0_5)

\* sum(1 for p in all_patterns if ...), for each band
CountHigh(ps)   == Cardinality({k \in 1..Len(ps) : IsHigh(ps[k])})
CountMedium(ps) == Cardinality({k \in 1..Len(ps) : IsMedium(ps[k])})
CountLow(ps)    == Cardinality({k \in 1..Len(ps) : IsLow(ps[k])})

\* mutant of InsertAt: x goes in front of the elements of its own confidence
InsertAtFront(acc, x) ==
    1 + Cardinality({k \in 1..Len(acc) : FloatLess(x.confidence, acc[k].confidence)})

\* where x goes into the sorted list acc: behind every element whose
\* confidence is not lower than its own
InsertAt(acc, x) ==
    1 + Cardinality({k \in 1..Len(acc) : ~FloatLess(acc[k].confidence, x.confidence)})

RECURSIVE SortFrom(_, _, _)
SortFrom(ps, k, acc) ==
    IF k > Len(ps) THEN acc
    ELSE LET at == InsertAt(acc, ps[k])
         IN  SortFrom(ps, k + 1,
                      SubSeq(acc, 1, at - 1) \o <<ps[k]>> \o SubSeq(acc, at, Len(acc)))

\* sorted(ps, key=lambda x: x['confidence'], reverse=True): a stable sort
SortedByConfidence(ps) == SortFrom(ps, 1, <<>>)

TopN == 10

MakeSummary(ps, files) ==
    [total_patterns |-> Len(ps),
     files_processed |-> files,
     pattern_distribution |-> CounterOf([k \in 1..Len(ps) |-> ps[k].pattern_type]),
     business_context_distribution |-> CounterOf([k \in 1..Len(ps) |-> ps[k].business_context]),
     confidence_distribution |->
        [high |-> CountHigh(ps), medium |-> CountMedium(ps), low |-> CountLow(ps)],
     top_patterns_by_confidence |-> FirstN(SortedByConfidence(ps), TopN)]

(***************************************************************************)
(* The state                                                               *)
(***************************************************************************)
MaxDirs == 2
MaxUnreadable == 1

SampleDirs == {FileDir(f) : f \in SampleFiles} \cup {"empty"}
FilesIn(dir) == {f \in SampleFiles : FileDir(f) = dir}

VARIABLES
    tool,            \* which script runs: "analyze" or "scan"
    root_exists,     \* whether the root directory of the run exists
    tree,            \* the top-level directories under the root, in listing order
    unreadable,      \* the files whose open() raises
    pc,              \* where the run is
    walk,            \* analyze: the directories os.walk has yet to report
    subdirs,         \* scan: the project directories yet to scan
    dirfiles,        \* the files of the current directory not yet visited
    cur,             \* the file extract_from_file is working on
    methods,         \* extract_from_file: the items of methods not yet classified
    results,         \* extract_from_file: results
    all_patterns,    \* analyze_repository: all_patterns
    processed_files, \* analyze_repository: processed_files
    summary,         \* the summary of the run (of either script)
    proj_result,     \* scan_directory: proj_result of the current project
    visited,         \* history: the files handed to extract_from_file / scan_file
    ctx_path,        \* the file path handed to _get_business_context on its own
    label,           \* what _get_business_context returned for ctx_path
    relabel,         \* what it returned when called on ctx_path again
    case_text,       \* a text handed to the classifier and to the line-level counter
    case_variant,    \* the same text with letters in another case
    case_found,      \* what the classifier gave for the two texts
    case_counted     \* what the line-level counter gave for the two texts

vars == <<tool, root_exists, tree, unreadable, pc, walk, subdirs, dirfiles, cur, methods,
          results, all_patterns, processed_files, summary, proj_result, visited,
          ctx_path, label, relabel, case_text, case_variant, case_found, case_counted>>

cases == <<case_text, case_variant, case_found, case_counted>>

\* what no step of the two scripts changes
env == <<tool, root_exists, tree, unreadable, ctx_path, label, relabel, cases>>

NoFile == ""
NoSummary == [none |-> TRUE]
NoProject == [none |-> TRUE]
NoLabel == [none |-> TRUE]

\* the sequences without repetition of at most n elements of S
RECURSIVE SeqsUpTo(_, _)
SeqsUpTo(S, n) ==
    IF n = 0 THEN {<<>>}
    ELSE LET shorter == SeqsUpTo(S, n - 1)
         IN  shorter \cup {Append(q, d) : <<q, d>> \in
                             {<<q, d>> \in shorter \X S :
                                 Len(q) = n - 1 /\ \A k \in 1..Len(q) : q[k] # d}}

TreeFiles(tr) == UNION {FilesIn(tr[k]) : k \in 1..Len(tr)}

\* scan_directory, lines 38-44
ZeroCounts == [c \in 1..Len(ScanTypes) |-> 0]
EmptyScanSummary ==
    [total_projects |-> 0, total_files |-> 0, total_patterns |-> ZeroCounts,
     total_pattern_loc |-> 0, projects |-> <<>>]

Init ==
    /\ tool \in {"analyze", "scan"}
    /\ root_exists \in BOOLEAN
    /\ tree \in (IF root_exists THEN SeqsUpTo(SampleDirs, MaxDirs) ELSE {<<>>})
    /\ unreadable \in {u \in SUBSET TreeFiles(tree) : Cardinality(u) <= MaxUnreadable}
    /\ pc = "start"
    /\ walk = <<>>
    /\ subdirs = <<>>
    /\ dirfiles = {}
    /\ cur = NoFile
    /\ methods = <<>>
    /\ results = <<>>
    /\ all_patterns = <<>>
    /\ processed_files = 0
    /\ summary = NoSummary
    /\ proj_result = NoProject
    /\ visited = <<>>
    /\ ctx_path = ""
    /\ label = NoLabel
    /\ relabel = NoLabel
    /\ case_text = ""
    /\ case_variant = ""
    /\ case_found = <<>>
    /\ case_counted = <<>>

(***************************************************************************)
(* analyze_repository                                                      *)
(***************************************************************************)
\* the directories below the root that hold files, as os.walk reports them:
\* each top-level directory, then its subdirectories
SubsOf(dir) == {FileSub(f) : f \in FilesIn(dir)} \ {""}
RECURSIVE SetToSeq(_)
SetToSeq(S) == IF S = {} THEN <<>> ELSE LET e == CHOOSE e \in S : TRUE IN <<e>> \o SetToSeq(S \ {e})
RECURSIVE WalkRoots(_, _)
WalkRoots(tr, k) ==
    IF k > Len(tr) THEN <<>>
    ELSE <<[dir |-> tr[k], sub |-> ""]>>
         \o [n \in 1..Cardinality(SubsOf(tr[k])) |-> [dir |-> tr[k], sub |-> SetToSeq(SubsOf(tr[k]))[n]]]
         \o WalkRoots(tr, k + 1)

SkipDirs == <<"/build/", "/target/", "/.git/", "/test/">>

\* any(skip in root for skip in [...])
SkippedRoot(root) == \E k \in 1..Len(SkipDirs) : Contains(root, SkipDirs[k])

\* file.endswith('.java') and not file.endswith('Test.java')
AnalyzedName(file) == EndsWith(file, ".java") /\ ~EndsWith(file, "Test.java")

\* lines 123-129: the extractor is built, os.walk starts (it reports nothing
\* for a root that does not exist)
AnalyzeStart ==
    /\ tool = "analyze" /\ pc = "start"
    /\ walk' = (IF root_exists THEN WalkRoots(tree, 1) ELSE <<>>)
    /\ pc' = "walk"
    /\ UNCHANGED <<env, subdirs, dirfiles, cur, methods, results, all_patterns,
                   processed_files, summary, proj_result, visited>>

\* lines 129-132: the next directory of the walk; a skipped one is passed over
WalkDir ==
    /\ tool = "analyze" /\ pc = "walk" /\ dirfiles = {} /\ walk # <<>>
    /\ LET r    == Head(walk)
           root == IF r.sub = "" THEN PathJoin(RepoPath, r.dir)
                   ELSE PathJoin(PathJoin(RepoPath, r.dir), r.sub)
       IN  dirfiles' = (IF SkippedRoot(root) THEN {}
                        ELSE {f \in FilesIn(r.dir) : FileSub(f) = r.sub})
    /\ walk' = Tail(walk)
    /\ UNCHANGED <<env, pc, subdirs, cur, methods, results, all_patterns,
                   processed_files, summary, proj_result, visited>>

\* lines 134-137: the next file of the directory; extract_from_file is called
\* on the .java files that are not tests
VisitFile ==
    /\ tool = "analyze" /\ pc = "walk"
    /\ \E f \in dirfiles :
        /\ dirfiles' = dirfiles \ {f}
        /\ IF AnalyzedName(FileName(f))
           THEN /\ cur' = f
                /\ pc' = "open"
                /\ visited' = Append(visited, f)
           ELSE UNCHANGED <<cur, pc, visited>>
    /\ UNCHANGED <<env, walk, subdirs, methods, results, all_patterns,
                   processed_files, summary, proj_result>>

\* mutant of ExtractExceptPc: no except clause, the exception leaves the run
ExtractRaisePc == "crashed"

\* where extract_from_file goes when its try block raises: lines 95-96, return []
ExtractExceptPc == "return"

\* lines 65-70: the file is read and its methods extracted; a failing open()
\* raises into the except clause, which returns the empty list
ExtractOpen ==
    /\ pc = "open"
    /\ IF cur \in unreadable
       THEN /\ pc' = ExtractExceptPc
            /\ results' = <<>>
            /\ methods' = <<>>
       ELSE /\ pc' = "classify"
            /\ results' = <<>>
            /\ methods' = [k \in 1..Len(MethodsOf[cur]) |-> k]
    /\ UNCHANGED <<env, walk, subdirs, dirfiles, cur, all_patterns, processed_files,
                   summary, proj_result, visited>>

\* lines 72-92: one turn of the loop over methods.items(), with the whole
\* inner loop over the categories
ClassifyNext ==
    /\ pc = "classify" /\ methods # <<>>
    /\ results' = results \o ClassifiedOf[cur][Head(methods)]
    /\ methods' = Tail(methods)
    /\ UNCHANGED <<env, pc, walk, subdirs, dirfiles, cur, all_patterns, processed_files,
                   summary, proj_result, visited>>

\* mutant of ExtractDone: after the loop the file is opened and gone through again
ExtractAgain ==
    /\ pc = "classify" /\ methods = <<>>
    /\ pc' = "open"
    /\ UNCHANGED <<env, walk, subdirs, dirfiles, cur, methods, results, all_patterns,
                   processed_files, summary, proj_result, visited>>

\* line 94: the loop is over, results is returned
ExtractDone ==
    /\ pc = "classify" /\ methods = <<>>
    /\ pc' = "return"
    /\ UNCHANGED <<env, walk, subdirs, dirfiles, cur, methods, results, all_patterns,
                   processed_files, summary, proj_result, visited>>

\* lines 137-139: the caller takes the list
ExtendPatterns ==
    /\ pc = "return"
    /\ all_patterns' = all_patterns \o results
    /\ processed_files' = processed_files + 1
    /\ cur' = NoFile
    /\ results' = <<>>
    /\ pc' = "walk"
    /\ UNCHANGED <<env, walk, subdirs, dirfiles, methods, summary, proj_result, visited>>

\* lines 147-171: the walk is over, the summary is built
Summarize ==
    /\ tool = "analyze" /\ pc = "walk" /\ dirfiles = {} /\ walk = <<>>
    /\ summary' = MakeSummary(all_patterns, processed_files)
    /\ pc' = "done"
    /\ UNCHANGED <<env, walk, subdirs, dirfiles, cur, methods, results, all_patterns,
                   processed_files, proj_result, visited>>

(***************************************************************************)
(* scan_directory and scan_file                                            *)
(***************************************************************************)
\* mutant of ListDirExceptPc: the FileNotFoundError is not caught
ListDirRaisePc == "raised"

\* where scan_directory goes when os.listdir raises FileNotFoundError:
\* lines 49-51, the summary is returned as it stands
ListDirExceptPc == "done"

\* lines 38-51: the summary is set up and the root directory is listed
ScanStart ==
    /\ tool = "scan" /\ pc = "start"
    /\ summary' = EmptyScanSummary
    /\ IF root_exists
       THEN subdirs' = tree /\ pc' = "projects"
       ELSE subdirs' = <<>> /\ pc' = ListDirExceptPc
    /\ UNCHANGED <<env, walk, dirfiles, cur, methods, results, all_patterns,
                   processed_files, proj_result, visited>>

\* lines 53-63: the next subdirectory becomes a project
BeginProject ==
    /\ tool = "scan" /\ pc = "projects" /\ subdirs # <<>>
    /\ LET i == Len(tree) - Len(subdirs)
       IN  proj_result' = [project_id  |-> <<"Project", i + 1>>,
                           total_files |-> 0,
                           patterns    |-> ZeroCounts,
                           pattern_loc |-> 0]
    /\ dirfiles' = FilesIn(Head(subdirs))
    /\ subdirs' = Tail(subdirs)
    /\ pc' = "pfiles"
    /\ UNCHANGED <<env, walk, cur, methods, results, all_patterns, processed_files,
                   summary, visited>>

\* scan_file, lines 79-111: a failing open() raises before anything is
\* counted and the except clause passes
ScanFile(f, pr) ==
    IF f \in unreadable THEN pr
    ELSE [pr EXCEPT !.patterns = [c \in 1..Len(ScanTypes) |-> pr.patterns[c] + RawOf[f][c]],
                    !.pattern_loc = pr.pattern_loc + LocOf[f]]

\* lines 65-70: the next file of the project's walk; a .java file is counted
\* and scanned
ScanVisit ==
    /\ tool = "scan" /\ pc = "pfiles"
    /\ \E f \in dirfiles :
        /\ dirfiles' = dirfiles \ {f}
        /\ IF EndsWith(FileName(f), ".java")
           THEN /\ proj_result' = ScanFile(f, [proj_result EXCEPT !.total_files = @ + 1])
                /\ summary' = [summary EXCEPT !.total_files = @ + 1]
                /\ visited' = Append(visited, f)
           ELSE UNCHANGED <<proj_result, summary, visited>>
    /\ UNCHANGED <<env, pc, walk, subdirs, cur, methods, results, all_patterns, processed_files>>

\* mutant of RollUp: the roll-up takes the last project's figures
RollUpLast(sm, pr) ==
    [sm EXCEPT !.projects = Append(@, pr),
               !.total_projects = @ + 1,
               !.total_patterns = pr.patterns,
               !.total_pattern_loc = pr.pattern_loc]

\* lines 72-75: the project's record is added to the summary
RollUp(sm, pr) ==
    [sm EXCEPT !.projects = Append(@, pr),
               !.total_projects = @ + 1,
               !.total_patterns = [c \in 1..Len(ScanTypes) |-> sm.total_patterns[c] + pr.patterns[c]],
               !.total_pattern_loc = @ + pr.pattern_loc]

EndProject ==
    /\ tool = "scan" /\ pc = "pfiles" /\ dirfiles = {}
    /\ summary' = RollUp(summary, proj_result)
    /\ proj_result' = NoProject
    /\ pc' = "projects"
    /\ UNCHANGED <<env, walk, subdirs, dirfiles, cur, methods, results, all_patterns,
                   processed_files, visited>>

\* line 77
ScanReturn ==
    /\ tool = "scan" /\ pc = "projects" /\ subdirs = <<>>
    /\ pc' = "done"
    /\ UNCHANGED <<env, walk, subdirs, dirfiles, cur, methods, results, all_patterns,
                   processed_files, summary, proj_result, visited>>

(***************************************************************************)
(* _get_business_context on its own, over paths put together from pieces   *)
(***************************************************************************)
MaxPathParts == 3

PathPieces == {"/", "Account", "BALANCE", "card", "s", "loan", "Trans", "fer", "action", "x.java"}

RECURSIVE PathsUpTo(_)
\* the texts of at most n pieces
PathsUpTo(n) ==
    IF n = 0 THEN {""}
    ELSE LET shorter == PathsUpTo(n - 1)
         IN  shorter \cup {q \o piece : <<q, piece>> \in shorter \X PathPieces}

InitCtx ==
    /\ tool = "context"
    /\ ctx_path \in PathsUpTo(MaxPathParts)
    /\ label = NoLabel
    /\ relabel = NoLabel
    /\ case_text = ""
    /\ case_variant = ""
    /\ case_found = <<>>
    /\ case_counted = <<>>
    /\ root_exists = FALSE
    /\ tree = <<>>
    /\ unreadable = {}
    /\ pc = "start"
    /\ walk = <<>>
    /\ subdirs = <<>>
    /\ dirfiles = {}
    /\ cur = NoFile
    /\ methods = <<>>
    /\ results = <<>>
    /\ all_patterns = <<>>
    /\ processed_files = 0
    /\ summary = NoSummary
    /\ proj_result = NoProject
    /\ visited = <<>>

scripts == <<root_exists, tree, unreadable, walk, subdirs, dirfiles, cur, methods, results,
             all_patterns, processed_files, summary, proj_result, visited>>

\* line 81: 'business_context': self._get_business_context(filepath)
TagContext ==
    /\ tool = "context" /\ pc = "start"
    /\ label' = GetBusinessContext(ctx_path)
    /\ pc' = "tagged"
    /\ UNCHANGED <<tool, ctx_path, relabel, scripts, cases>>

\* the same call on the same path once more
TagAgain ==
    /\ tool = "context" /\ pc = "tagged"
    /\ relabel' = GetBusinessContext(ctx_path)
    /\ pc' = "done"
    /\ UNCHANGED <<tool, ctx_path, label, scripts, cases>>

NextCtx == TagContext \/ TagAgain

SpecCtx == InitCtx /\ [][NextCtx]_vars

(***************************************************************************)
(* The two use modes of the catalog on a text and on the same text in      *)
(* another letter case                                                     *)
(***************************************************************************)
MaxTextParts == 2

TextPieces == {"m.put(k, 1);", "Arrays.sort(a);", "StringBuilder b", "class TreeNode", " x = y;", "\n"}

RECURSIVE TextsUpTo(_)
\* the texts of at most n pieces
TextsUpTo(n) ==
    IF n = 0 THEN {""}
    ELSE LET shorter == TextsUpTo(n - 1)
         IN  shorter \cup {q \o piece : <<q, piece>> \in shorter \X TextPieces}

\* texts that differ from s only in the case of letters
CaseVariants(s) == {Upper(s), Lower(s)}

InitCase ==
    /\ tool = "case"
    /\ case_text \in TextsUpTo(MaxTextParts)
    /\ case_variant \in CaseVariants(case_text)
    /\ case_found = <<>>
    /\ case_counted = <<>>
    /\ ctx_path = ""
    /\ label = NoLabel
    /\ relabel = NoLabel
    /\ root_exists = FALSE
    /\ tree = <<>>
    /\ unreadable = {}
    /\ pc = "start"
    /\ walk = <<>>
    /\ subdirs = <<>>
    /\ dirfiles = {}
    /\ cur = NoFile
    /\ methods = <<>>
    /\ results = <<>>
    /\ all_patterns = <<>>
    /\ processed_files = 0
    /\ summary = NoSummary
    /\ proj_result = NoProject
    /\ visited = <<>>

\* extract_from_file, lines 73-92, on a method with the text as its body:
\* the category, matches and confidence of each record
Classified3(body) ==
    LET recs == ClassifyMethod("Case.java", [name |-> "m", body |-> body])
    IN  [k \in 1..Len(recs) |-> <<recs[k].pattern_type, recs[k].matches, recs[k].confidence>>]

\* scan_file, lines 84-108, on a file with the text as its content: what it
\* adds to patterns and to pattern_loc
Scanned(content) ==
    [patterns    |-> [c \in 1..Len(ScanTypes) |-> RawMatches(content, ScanTypes[c])],
     pattern_loc |-> LocCount(content)]

ClassifyBoth ==
    /\ tool = "case" /\ pc = "start"
    /\ case_found' = <<Classified3(case_text), Classified3(case_variant)>>
    /\ pc' = "classified"
    /\ UNCHANGED <<tool, ctx_path, label, relabel, scripts, case_text, case_variant, case_counted>>

ScanBoth ==
    /\ tool = "case" /\ pc = "classified"
    /\ case_counted' = <<Scanned(case_text), Scanned(case_variant)>>
    /\ pc' = "done"
    /\ UNCHANGED <<tool, ctx_path, label, relabel, scripts, case_text, case_variant, case_found>>

NextCase == ClassifyBoth \/ ScanBoth

SpecCase == InitCase /\ [][NextCase]_vars

(***************************************************************************)
(* What the claims speak of                                                *)
(***************************************************************************)
\* the method declarations of a text with a non-trivial body, one entry per
\* declaration (before they are keyed by name)
Declarations(java_code) ==
    LET starts == {i \in 1..(Len(java_code) + 1) : CatEnds(MethodPattern, 1, java_code, i, FALSE) # <<>>}
    IN  SelectSeq(FindIter(MethodPattern, java_code, starts, 1),
                  LAMBDA m : StripLen(m.body) > TrivialLen)

\* how many distinct signatures of the category match the body
DistinctHits(body, pattern_type) ==
    Cardinality({n \in 1..Len(Patterns(pattern_type)) :
                    Search(Patterns(pattern_type)[n], body, TRUE)})

DeclarationsOf == [f \in SampleFiles |-> Declarations(Content(f))]

DeclHitsOf ==
    [f \in SampleFiles |->
        [d \in 1..Len(DeclarationsOf[f]) |->
            [c \in 1..Len(PatternTypes) |-> DistinctHits(DeclarationsOf[f][d].body, PatternTypes[c])]]]

\* the same for the k-th item of the methods dict of the file
MethodHits(f, k, c) ==
    LET d == CHOOSE d \in 1..Len(DeclarationsOf[f]) : DeclarationsOf[f][d] = MethodsOf[f][k]
    IN  DeclHitsOf[f][d][c]

MostSignatures == Max({Len(Patterns(PatternTypes[c])) : c \in 1..Len(PatternTypes)})

\* min(0.3 + 0.2 * k, 1.0) in float arithmetic, for each possible k
ScoreOf ==
    [k \in 1..MostSignatures |->
        FloatMin(FloatAdd(F0_3, FloatMul(FloatOfInt(k), F0_2)), F1_0)]

\* the methods of the current file that the loop has been through
Classified == 1..(Len(MethodsOf[cur]) - Len(methods))

InExtract == pc \in {"classify", "return"} /\ cur # NoFile /\ cur \notin unreadable

\* the records in results for a method name and a category
RecordsFor(name, pattern_type) ==
    {n \in 1..Len(results) : results[n].method = name /\ results[n].pattern_type = pattern_type}

\* C1: in extract_from_file, for every method body gone through and every
\* category, k >= 1 distinct matching signatures give exactly one record, with
\* matches = k and confidence = min(0.3 + 0.2k, 1.0); k = 0 gives no record.
C1_OneRecordPerMatchingCategory ==
    InExtract =>
        \A k \in Classified : \A c \in 1..Len(PatternTypes) :
            LET hits == MethodHits(cur, k, c)
                recs == RecordsFor(MethodsOf[cur][k].name, PatternTypes[c])
            IN  IF hits = 0 THEN recs = {}
                ELSE /\ Cardinality(recs) = 1
                     /\ \A n \in recs : /\ results[n].matches = hits
                                        /\ results[n].confidence = ScoreOf[hits]

\* a method has been through the loop with a category that matched on several
\* signatures, one whose only matching signature occurs twice in the body,
\* and one that did not match
C1_Witness ==
    /\ InExtract /\ cur = "Account" /\ methods = <<>>
    /\ \E n \in 1..Len(results) : results[n].matches = 3
    /\ \E n \in 1..Len(results) : results[n].method = "check" /\ results[n].matches = 1
                                   /\ results[n].pattern_type = "string_processing"
    /\ \E k \in Classified : \E c \in 1..Len(PatternTypes) : MethodHits(cur, k, c) = 0

F0_9up == HexFloat("cccccccccccce", -1)

\* C2 as claimed: one matching signature scores 0.5, two 0.7, three or more 1.0
C2_Claimed ==
    \A n \in 1..Len(all_patterns) :
        LET p == all_patterns[n]
        IN  /\ p.matches = 1 => p.confidence = F0_5
            /\ p.matches = 2 => p.confidence = F0_7
            /\ p.matches >= 3 => p.confidence = F1_0

\* C2 amended: one matching signature scores 0.5, two 0.7, three
\* 0.9000000000000001 (0x1.ccccccccccccep-1, the float sum 0.3 + 3 * 0.2),
\* and only four or more are clamped to 1.0
C2_ScoreTable ==
    \A n \in 1..Len(all_patterns) :
        LET p == all_patterns[n]
        IN  /\ p.matches = 1 => p.confidence = F0_5
            /\ p.matches = 2 => p.confidence = F0_7
            /\ p.matches = 3 => p.confidence = F0_9up
            /\ p.matches >= 4 => p.confidence = F1_0

C2_Witness ==
    /\ \E n \in 1..Len(all_patterns) : all_patterns[n].matches = 3
    /\ \E n \in 1..Len(all_patterns) : all_patterns[n].matches = 4
    /\ \E n \in 1..Len(all_patterns) : all_patterns[n].matches = 2
    /\ \E n \in 1..Len(all_patterns) : all_patterns[n].matches = 1

\* C3 as claimed: when extract_from_file returns, every (method declaration,
\* category) pair with a matching signature has a record of its own, also
\* for several declarations of one name
C3_Claimed ==
    (pc = "return" /\ cur # NoFile /\ cur \notin unreadable) =>
        LET decls == DeclarationsOf[cur]
            pairs == {<<d, c>> \in (1..Len(decls)) \X (1..Len(PatternTypes)) :
                         DeclHitsOf[cur][d][c] > 0}
        IN  /\ Len(results) = Cardinality(pairs)
            /\ \A <<d, c>> \in pairs :
                   \E n \in 1..Len(results) :
                       /\ results[n].method = decls[d].name
                       /\ results[n].pattern_type = PatternTypes[c]
                       /\ results[n].code_snippet = CodeSnippet(decls[d].body)

RECURSIVE Flatten(_, _)
Flatten(seqs, k) == IF k > Len(seqs) THEN <<>> ELSE seqs[k] \o Flatten(seqs, k + 1)

\* what extract_from_file returns for each sample file when it can be read
RecordsOf == [f \in SampleFiles |-> Flatten(ClassifiedOf[f], 1)]

\* the records of a set of files, in an order that is not the arrival order
RecordsOfSet(S) == Flatten([k \in 1..Cardinality(S) |-> RecordsOf[SetToSeq(S)[k]]], 1)

\* Counter[key], 0 for a key it does not hold
CounterGet(d, key) ==
    IF \E k \in 1..Len(d) : d[k].key = key
    THEN (CHOOSE e \in {d[k] : k \in 1..Len(d)} : e.key = key).n
    ELSE 0

CounterKeys(d) == {d[k].key : k \in 1..Len(d)}

TypesOf(ps) == [k \in 1..Len(ps) |-> ps[k].pattern_type]
ContextsOf(ps) == [k \in 1..Len(ps) |-> ps[k].business_context]

\* the files whose records went into all_patterns
FilesSeen == {visited[k] : k \in 1..Len(visited)} \ unreadable

\* C4: the distributions of the summary do not depend on the order of arrival
\* and are additive: for every split of the files processed into two disjoint
\* sets, the counts of the two parts (each aggregated on its own, in another
\* order) add up to total_patterns, pattern_distribution,
\* business_context_distribution and confidence_distribution of the one pass.
C4_AggregationOrderFree ==
    (tool = "analyze" /\ pc = "done") =>
        \A A \in SUBSET FilesSeen :
            LET pa == RecordsOfSet(A)
                pb == RecordsOfSet(FilesSeen \ A)
                ta == CounterOf(TypesOf(pa))
                tb == CounterOf(TypesOf(pb))
                ca == CounterOf(ContextsOf(pa))
                cb == CounterOf(ContextsOf(pb))
                cd == summary.confidence_distribution
            IN  /\ summary.total_patterns = Len(pa) + Len(pb)
                /\ CounterKeys(summary.pattern_distribution) = CounterKeys(ta) \cup CounterKeys(tb)
                /\ \A key \in CounterKeys(ta) \cup CounterKeys(tb) :
                       CounterGet(summary.pattern_distribution, key)
                           = CounterGet(ta, key) + CounterGet(tb, key)
                /\ CounterKeys(summary.business_context_distribution)
                       = CounterKeys(ca) \cup CounterKeys(cb)
                /\ \A key \in CounterKeys(ca) \cup CounterKeys(cb) :
                       CounterGet(summary.business_context_distribution, key)
                           = CounterGet(ca, key) + CounterGet(cb, key)
                /\ cd.high = CountHigh(pa) + CountHigh(pb)
                /\ cd.medium = CountMedium(pa) + CountMedium(pb)
                /\ cd.low = CountLow(pa) + CountLow(pb)

\* a summary over files of two directories that share a category and a band,
\* the files having arrived in an order other than the one the parts use
C4_Witness ==
    /\ tool = "analyze" /\ pc = "done"
    /\ {"Account", "Card", "Sorter"} \subseteq FilesSeen
    /\ CounterGet(summary.pattern_distribution, "hash_map_operations") = 3
    /\ summary.confidence_distribution.high >= 2
    /\ RecordsOfSet(FilesSeen) # all_patterns

\* how many records come before all_patterns[i] in the ranking: those of
\* higher confidence and those of equal confidence that arrived earlier
RankOf(i) ==
    Cardinality({j \in 1..Len(all_patterns) :
                    \/ FloatLess(all_patterns[i].confidence, all_patterns[j].confidence)
                    \/ all_patterns[j].confidence = all_patterns[i].confidence /\ j < i})

\* C5: top_patterns_by_confidence holds min(10, n) records in descending
\* order of confidence, equal confidences in order of arrival; a record is in
\* the list exactly when fewer than 10 records have higher confidence or
\* equal confidence and earlier arrival, and it stands at that rank.
C5_TopTenStable ==
    (tool = "analyze" /\ pc = "done") =>
        LET top == summary.top_patterns_by_confidence
        IN  /\ Len(top) = Min({TopN, Len(all_patterns)})
            /\ \A k \in 1..(Len(top) - 1) : ~FloatLess(top[k].confidence, top[k + 1].confidence)
            /\ \A i \in 1..Len(all_patterns) :
                   IF RankOf(i) < TopN THEN top[RankOf(i) + 1] = all_patterns[i]
                   ELSE \A k \in 1..Len(top) : top[k] # all_patterns[i]

\* more than ten records, and records of one confidence on both sides of the cut
C5_Witness ==
    /\ tool = "analyze" /\ pc = "done" /\ Len(all_patterns) > TopN
    /\ \E i, j \in 1..Len(all_patterns) :
           /\ i < j /\ RankOf(i) < TopN /\ RankOf(j) >= TopN
           /\ all_patterns[i].confidence = all_patterns[j].confidence

RECURSIVE SumUpTo(_, _)
\* f[1] + ... + f[n]
SumUpTo(f, n) == IF n = 0 THEN 0 ELSE f[n] + SumUpTo(f, n - 1)

\* C6: when scan_directory returns, total_projects is the number of entries
\* of projects, and total_files, each total_patterns entry and
\* total_pattern_loc are the sums of the projects' figures.
C6_RollUpIsSum ==
    (tool = "scan" /\ pc = "done") =>
        LET ps == summary.projects
        IN  /\ summary.total_projects = Len(ps)
            /\ summary.total_files = SumUpTo([k \in 1..Len(ps) |-> ps[k].total_files], Len(ps))
            /\ \A c \in 1..Len(ScanTypes) :
                   summary.total_patterns[c]
                       = SumUpTo([k \in 1..Len(ps) |-> ps[k].patterns[c]], Len(ps))
            /\ summary.total_pattern_loc
                   = SumUpTo([k \in 1..Len(ps) |-> ps[k].pattern_loc], Len(ps))

\* two projects, both with files, matches and matching lines
C6_Witness ==
    /\ tool = "scan" /\ pc = "done" /\ Len(summary.projects) = 2
    /\ \A k \in 1..2 : /\ summary.projects[k].total_files > 0
                       /\ summary.projects[k].pattern_loc > 0
                       /\ \E c \in 1..Len(ScanTypes) : summary.projects[k].patterns[c] > 0

\* the lines of each sample file that match at least one signature of at
\* least one category
MatchingLinesOf ==
    [f \in SampleFiles |->
        LET lines == SplitLines(Content(f))
        IN  Cardinality({n \in 1..Len(lines) :
                \E c \in 1..Len(ScanTypes) : \E k \in 1..Len(ScanPatterns(ScanTypes[c])) :
                    Search(ScanPatterns(ScanTypes[c])[k], lines[n], FALSE)})]

\* whether some signature matches somewhere in the text of the file
MatchesInTextOf ==
    [f \in SampleFiles |->
        \E c \in 1..Len(ScanTypes) : \E k \in 1..Len(ScanPatterns(ScanTypes[c])) :
            Search(ScanPatterns(ScanTypes[c])[k], Content(f), FALSE)]

\* the step is a scan of a readable file
ScansReadable == tool = "scan" /\ visited' # visited /\ visited'[Len(visited')] \notin unreadable

\* C7 as claimed: scanning a file adds to pattern_loc the number of its lines
\* that match at least one signature, and when no line matches anything it
\* adds 0 and leaves every per-category raw count unchanged
C7_Claimed ==
    [][ScansReadable =>
           LET f == visited'[Len(visited')]
           IN  /\ proj_result'.pattern_loc = proj_result.pattern_loc + MatchingLinesOf[f]
               /\ MatchingLinesOf[f] = 0 => proj_result'.patterns = proj_result.patterns]_vars

\* C7 amended: scanning a file adds to pattern_loc the number of its lines
\* that match at least one signature of at least one category, each line
\* counting once; the per-category raw counts are left unchanged when no
\* signature matches anywhere in the text of the file (a match that spans a
\* line break is in the raw count and in no line).
C7_OncePerLine ==
    [][ScansReadable =>
           LET f == visited'[Len(visited')]
           IN  /\ proj_result'.pattern_loc = proj_result.pattern_loc + MatchingLinesOf[f]
               /\ ~MatchesInTextOf[f] => proj_result'.patterns = proj_result.patterns]_vars

\* a file with a line that several signatures match has been scanned, and now
\* a file whose only match spans a line break
C7_Witness ==
    /\ tool = "scan" /\ pc = "pfiles" /\ unreadable = {}
    /\ visited # <<>> /\ visited[Len(visited)] = "Wrap"
    /\ proj_result.pattern_loc = 0
    /\ proj_result.patterns[1] > 0
    /\ \E k \in 1..Len(summary.projects) :
           /\ summary.projects[k].pattern_loc > 0
           /\ summary.projects[k].pattern_loc
                  < SumUpTo(summary.projects[k].patterns, Len(ScanTypes))

PcValues == {"start", "walk", "open", "classify", "return", "projects", "pfiles", "done"}

\* the sum of g over the set S
SumOver(S, g) == SumUpTo([k \in 1..Cardinality(S) |-> g[SetToSeq(S)[k]]], Cardinality(S))

\* the files analyze_repository hands to extract_from_file
Analyzed(tr) ==
    {f \in TreeFiles(tr) : AnalyzedName(FileName(f)) /\ ~SkippedRoot(RootOf(RepoPath, f))}

JavaFilesIn(dir) == {f \in FilesIn(dir) : EndsWith(FileName(f), ".java")}

C9_EmptyRootAllZero ==
    /\ pc \in PcValues
    /\ (pc = "done" /\ (~root_exists \/ tree = <<>>)) =>
           IF tool = "scan"
           THEN /\ summary.total_projects = 0
                /\ summary.total_files = 0
                /\ \A c \in 1..Len(ScanTypes) : summary.total_patterns[c] = 0
                /\ summary.total_pattern_loc = 0
                /\ summary.projects = <<>>
           ELSE /\ summary.total_patterns = 0
                /\ summary.files_processed = 0
                /\ summary.pattern_distribution = <<>>
                /\ summary.business_context_distribution = <<>>
                /\ summary.confidence_distribution = [high |-> 0, medium |-> 0, low |-> 0]
                /\ summary.top_patterns_by_confidence = <<>>

\* scan_directory has returned from a root that does not exist
C9_Witness == tool = "scan" /\ pc = "done" /\ ~root_exists /\ summary # NoSummary

\* the vocabulary in the order the labels are to list it
Vocabulary ==
    <<"invoice", "payment", "balance", "account", "transaction", "settlement",
      "card", "loan", "savings", "transfer", "financial">>

\* term occurs in text when the case of the letters of text is ignored
OccursIgnoringCase(term, text) ==
    \E i \in 1..(Len(text) - Len(term) + 1) :
        \A j \in 1..Len(term) : LowerCh(Ch(text, i + j - 1)) = Ch(term, j)

\* the terms of the vocabulary from the n-th on that occur in the text,
\* separated by ", "
RECURSIVE TermsFrom(_, _)
TermsFrom(n, text) ==
    IF n > Len(Vocabulary) THEN ""
    ELSE LET rest == TermsFrom(n + 1, text)
         IN  IF ~OccursIgnoringCase(Vocabulary[n], text) THEN rest
             ELSE IF rest = "" THEN Vocabulary[n]
             ELSE Vocabulary[n] \o ", " \o rest

\* C10: for every path _get_business_context returns the vocabulary terms
\* that occur in the path, case ignored, joined in vocabulary order; it
\* returns "general" if and only if no term occurs; a second call on the same
\* path returns the same label.
C10_ContextLabel ==
    /\ (tool = "context" /\ pc \in {"tagged", "done"}) =>
           /\ label = (IF TermsFrom(1, ctx_path) = "" THEN "general" ELSE TermsFrom(1, ctx_path))
           /\ label = "general" <=>
                  \A n \in 1..Len(Vocabulary) : ~OccursIgnoringCase(Vocabulary[n], ctx_path)
    /\ (tool = "context" /\ pc = "done") => relabel = label

\* the function has been called twice on a path with terms in upper case, in
\* an order other than the vocabulary's
C10_Witness ==
    /\ tool = "context" /\ pc = "done"
    /\ ctx_path = "cardAccountBALANCE"
    /\ label = "balance, account, card"
    /\ relabel = label

\* the classifier's half of C11: the records of a text and of its case
\* variant have the same categories, matches and confidences
ClassifierIgnoresCase ==
    (tool = "case" /\ pc \in {"classified", "done"}) => case_found[1] = case_found[2]

\* C11 as claimed: every signature is tested case-insensitively in both use
\* modes: for two texts that differ only in the case of letters the
\* classifier gives the same categories, matches and confidences, and the
\* line-level counter the same raw counts and the same number of matching lines
C11_Claimed ==
    /\ (tool = "case" /\ pc \in {"classified", "done"}) => case_found[1] = case_found[2]
    /\ (tool = "case" /\ pc = "done") => case_counted[1] = case_counted[2]

\* the steps from one place of a run to the next that keep the order Idle,
\* Extracting, Classifying, Tallying, Summarizing, Done
PhaseSteps ==
    {<<"start", "walk">>, <<"start", "projects">>, <<"start", "done">>,
     <<"walk", "walk">>, <<"walk", "open">>, <<"open", "classify">>, <<"open", "return">>,
     <<"classify", "classify">>, <<"classify", "return">>, <<"return", "walk">>,
     <<"walk", "done">>,
     <<"projects", "pfiles">>, <<"pfiles", "pfiles">>, <<"pfiles", "projects">>,
     <<"projects", "done">>}

NoRepeats(seq) == \A i, j \in 1..Len(seq) : i # j => seq[i] # seq[j]

\* the files the walk of the run supplies to extract_from_file / scan_file
Supplied ==
    IF tool = "analyze" THEN Analyzed(tree)
    ELSE UNION {JavaFilesIn(tree[k]) : k \in 1..Len(tree)}

\* every file handed over at most once; in extract_from_file the methods still
\* to classify are the last of the file's methods, and results holds the
\* records of each of the others once, in order; a summary exists in
\* analyze_repository only in a finished run; a finished run has handed over
\* every file and has nothing in progress
EachOnce ==
    /\ NoRepeats(visited)
    /\ {visited[k] : k \in 1..Len(visited)} \subseteq Supplied
    /\ (pc \in {"classify", "return"} /\ cur \notin unreadable) =>
           LET n == Len(MethodsOf[cur])
               d == n - Len(methods)
           IN  /\ d >= 0
               /\ methods = [k \in 1..Len(methods) |-> d + k]
               /\ results = Flatten([k \in 1..d |-> ClassifiedOf[cur][k]], 1)
               /\ pc = "return" => methods = <<>>
    /\ (tool = "analyze" /\ summary # NoSummary) => pc = "done"
    /\ pc = "done" =>
           /\ {visited[k] : k \in 1..Len(visited)} = Supplied
           /\ walk = <<>> /\ subdirs = <<>> /\ dirfiles = {} /\ cur = NoFile
           /\ summary # NoSummary
           /\ tool = "analyze" => /\ summary.files_processed = Len(visited)
                                  /\ summary.total_patterns = Len(all_patterns)
           /\ tool = "scan" => summary.total_files = Len(visited)

C13_BandsPartition ==
    (tool = "analyze" /\ pc = "done") =>
        LET cd     == summary.confidence_distribution
            n      == Len(all_patterns)
            conf(k) == all_patterns[k].confidence
            above  == {k \in 1..n : FloatLess(F0_7, conf(k))}
            below  == {k \in 1..n : FloatLess(conf(k), F0_5)}
        IN  /\ cd.high = Cardinality(above)
            /\ cd.low = Cardinality(below)
            /\ cd.medium = Cardinality((1..n) \ (above \cup below))
            /\ above \cap below = {}
            /\ cd.high + cd.medium + cd.low = summary.total_patterns
            /\ \A k \in 1..n : ~FloatLess(conf(k), F0_5)
            /\ cd.low = 0

\* a summary with records at both ends of the medium band and in the high band
C13_Witness ==
    /\ tool = "analyze" /\ pc = "done"
    /\ summary.confidence_distribution.high >= 2
    /\ \E k \in 1..Len(all_patterns) : all_patterns[k].confidence = F0_5
    /\ \E k \in 1..Len(all_patterns) : all_patterns[k].confidence = F0_7
    /\ summary.confidence_distribution.medium >= 2

Next ==
    \/ AnalyzeStart
    \/ WalkDir
    \/ VisitFile
    \/ ExtractOpen
    \/ ClassifyNext
    \/ ExtractDone
    \/ ExtendPatterns
    \/ Summarize
    \/ ScanStart
    \/ BeginProject
    \/ ScanVisit
    \/ EndProject
    \/ ScanReturn

Spec == Init /\ [][Next]_vars

\* the step of Summarize as far as pc goes; it is enabled exactly when
\* Summarize is
SummarizeStep ==
    /\ tool = "analyze" /\ pc = "walk" /\ dirfiles = {} /\ walk = <<>>
    /\ pc' = "done"

\* the steps of a run before the summary
Running ==
    \/ AnalyzeStart \/ WalkDir \/ VisitFile \/ ExtractOpen \/ ClassifyNext \/ ExtractDone
    \/ ExtendPatterns
    \/ ScanStart \/ BeginProject \/ ScanVisit \/ EndProject \/ ScanReturn

\* the scripts are sequential programs: a run that can take a step takes it
FairSpec == Spec /\ WF_vars(Running) /\ WF_pc(SummarizeStep)
====
